---- MODULE Spec2Model ----
(***************************************************************************)
(* A model of include/leveldb/slice.h: the byte span Slice (a pointer and  *)
(* a length into storage it does not own) and the edge key Slice_v (a      *)
(* Slice whose storage is its own member string "<src>|<dst>").            *)
(*                                                                         *)
(* Memory is a function from buffer ids to byte sequences.  A pointer is a *)
(* buffer id and an offset into it.  Buffer 0 is the string literal "".    *)
(* An object in slot i that owns a std::string (a Slice_v) keeps the       *)
(* string's bytes in buffer i.                                             *)
(***************************************************************************)
EXTENDS Integers, Sequences, FiniteSets

VARIABLES
  mem,    \* storage: buffer id -> sequence of bytes (0..255)
  sl,     \* the Slice / Slice_v objects, by slot
  pc,     \* "run", "abort" (assert fired) or "ub" (a violated REQUIRES went unchecked)
  build,  \* how the header was compiled: [ndebug, cxx20]
  res,    \* the last operation and what it returned
  hist    \* history: what each object was built from, what was removed from it

vars == <<mem, sl, pc, build, res, hist>>

----------------------------------------------------------------------------
(* Bounds of the model *)

MaxLen == 3        \* longest backing buffer of a byte span
MaxCalls == 3      \* longest sequence of remove_prefix calls on one span
NObj == 2          \* edge keys alive at once, parameters passed by value included

(* Program constants *)

Wildcard == -1     \* the destination that matches any destination
INT_MAX == 2147483647
INT_MIN == -INT_MAX - 1

Static == 0        \* the buffer of the literal ""

Bytes == {65, 200} \* 'A' and a byte above 127 (negative as a signed char)

SeqsUpTo(S, n) == UNION {[1..k -> S] : k \in 0..n}

Sign(r) == IF r < 0 THEN -1 ELSE IF r > 0 THEN 1 ELSE 0

SetMin(S) == CHOOSE m \in S : \A k \in S : m <= k

----------------------------------------------------------------------------
(* class Slice *)

\* Slice() : data_(""), size_(0)
Slice_default == [buf |-> Static, off |-> 0, size |-> 0]

\* Slice(const char* d, size_t n) : data_(d), size_(n)
Slice_ptr_len(b, k, n) == [buf |-> b, off |-> k, size |-> n]

\* Slice(const std::string& s) : data_(s.data()), size_(s.size())
Slice_string(b) == [buf |-> b, off |-> 0, size |-> Len(mem[b])]

\* data_[i], the byte i places after the pointer
At(x, i) == mem[x.buf][x.off + i + 1]

\* The pointer and length designate bytes that are there.
Valid(x) ==
  /\ x.size >= 0
  /\ x.off + x.size <= Len(mem[x.buf])

\* std::string(data_, size_)
ToString(x) == [i \in 1..x.size |-> At(x, i - 1)]

\* a char read as the signed char of the usual ABIs
SignedChar(c) == IF c >= 128 THEN c - 256 ELSE c

\* memcmp as it would be were bytes compared as plain (signed) char
memcmp_signed(x, y, n) ==
  LET d == {i \in 0..(n - 1) : At(x, i) # At(y, i)}
  IN  IF d = {} THEN 0
      ELSE IF SignedChar(At(x, SetMin(d))) < SignedChar(At(y, SetMin(d))) THEN -1 ELSE 1

\* memcmp(x.data_, y.data_, n): the sign of the first difference, the bytes
\* read as unsigned char (the size of a non-zero result is unspecified)
memcmp(x, y, n) ==
  LET d == {i \in 0..(n - 1) : At(x, i) # At(y, i)}
  IN  IF d = {} THEN 0
      ELSE IF At(x, SetMin(d)) < At(y, SetMin(d)) THEN -1 ELSE 1

\* Slice::compare without the tie-break on the lengths
Slice_compare_no_tiebreak(x, y) ==
  memcmp(x, y, IF x.size < y.size THEN x.size ELSE y.size)

\* int Slice::compare(const Slice& b) const
Slice_compare(x, y) ==
  LET min_len == IF x.size < y.size THEN x.size ELSE y.size
      r == memcmp(x, y, min_len)
  IN  IF r = 0
      THEN IF x.size < y.size THEN -1
           ELSE IF x.size > y.size THEN 1
           ELSE r
      ELSE r

\* operator== that forgets to compare the lengths
operator_eq_no_size(x, y) ==
  memcmp(x, y, IF x.size < y.size THEN x.size ELSE y.size) = 0

\* bool operator==(const Slice& x, const Slice& y)
operator_eq(x, y) == (x.size = y.size) /\ (memcmp(x, y, x.size) = 0)

\* bool operator!=(const Slice& x, const Slice& y)
operator_ne(x, y) == ~operator_eq(x, y)

\* bool Slice::starts_with(const Slice& x) const, called on t
starts_with(t, x) == (t.size >= x.size) /\ (memcmp(t, x, x.size) = 0)

\* size_t arithmetic.  A size_t is kept as the representative of its value
\* modulo 2^64 that lies in [-2^63, 2^63): a negative v stands for 2^64 + v,
\* the value an unsigned subtraction below zero wraps around to.
SizeSub(a, n) == a - n

\* a < b and a <= b on size_t (unsigned)
ULess(a, b) == IF (a < 0) = (b < 0) THEN a < b ELSE b < 0
ULessEq(a, b) == a = b \/ ULess(a, b)

\* void Slice::clear()
clear(x) == [x EXCEPT !.buf = Static, !.off = 0, !.size = 0]

\* remove_prefix that shortens the span and leaves the pointer where it was
remove_prefix_no_advance(x, n) == [x EXCEPT !.size = SizeSub(@, n)]

\* void Slice::remove_prefix(size_t n), past its assert
remove_prefix(x, n) == [x EXCEPT !.off = @ + n, !.size = SizeSub(@, n)]

----------------------------------------------------------------------------
(* Comparison of byte spans: three spans over three strings; the first two *)
(* are compared with compare, == and !=.                                   *)

CmpSlots == 1..3

NoRes == [op |-> "none"]

InitCompare ==
  /\ mem \in {m \in [0..3 -> SeqsUpTo(Bytes, MaxLen)] : m[Static] = <<>>}
  /\ sl = [i \in CmpSlots |-> Slice_string(i)]
  /\ pc = "run"
  /\ build = [ndebug |-> FALSE, cxx20 |-> FALSE]
  /\ res = NoRes
  /\ hist = <<>>

\* a.compare(b), for the spans in slots 1 and 2
Compare ==
  /\ res' = [op |-> "compare", x |-> 1, y |-> 2, int |-> Slice_compare(sl[1], sl[2])]
  /\ UNCHANGED <<mem, sl, pc, build, hist>>

\* a == b
Equal ==
  /\ res' = [op |-> "==", x |-> 1, y |-> 2, bool |-> operator_eq(sl[1], sl[2])]
  /\ UNCHANGED <<mem, sl, pc, build, hist>>

\* a != b
NotEqual ==
  /\ res' = [op |-> "!=", x |-> 1, y |-> 2, bool |-> operator_ne(sl[1], sl[2])]
  /\ UNCHANGED <<mem, sl, pc, build, hist>>

NextCompare == Compare \/ Equal \/ NotEqual

SpecCompare == InitCompare /\ [][NextCompare]_vars

\* Lexicographic order of byte sequences, bytes as unsigned values.
RECURSIVE LexLess(_, _)
LexLess(a, b) ==
  IF b = <<>> THEN FALSE
  ELSE IF a = <<>> THEN TRUE
  ELSE IF a[1] # b[1] THEN a[1] < b[1]
  ELSE LexLess(Tail(a), Tail(b))

LexSign(a, b) == IF LexLess(a, b) THEN -1 ELSE IF LexLess(b, a) THEN 1 ELSE 0

StrictPrefix(a, b) == Len(a) < Len(b) /\ SubSeq(b, 1, Len(a)) = a

\* C1: the sign of A.compare(B) is the sign of the lexicographic comparison
\* of the bytes (unsigned, shorter first on a common prefix); so compare is
\* antisymmetric, transitive, and a strict prefix compares less.
C1_CompareIsLexicographic ==
  /\ res.op = "compare" =>
       Sign(res.int) = LexSign(ToString(sl[res.x]), ToString(sl[res.y]))
  /\ \A i, j \in CmpSlots :
       /\ Sign(Slice_compare(sl[i], sl[j])) = LexSign(ToString(sl[i]), ToString(sl[j]))
       /\ Sign(Slice_compare(sl[i], sl[j])) = -Sign(Slice_compare(sl[j], sl[i]))
       /\ StrictPrefix(ToString(sl[i]), ToString(sl[j])) => Slice_compare(sl[i], sl[j]) < 0
  /\ \A i, j, k \in CmpSlots :
       Slice_compare(sl[i], sl[j]) < 0 /\ Slice_compare(sl[j], sl[k]) < 0
         => Slice_compare(sl[i], sl[k]) < 0

\* A compare of a strict prefix against its extension, whose next byte is
\* above 127, has returned; a third span lies above both.
C1_Witness ==
  /\ res.op = "compare"
  /\ StrictPrefix(ToString(sl[res.x]), ToString(sl[res.y]))
  /\ res.int < 0
  /\ \E k \in CmpSlots :
       /\ Slice_compare(sl[res.y], sl[k]) < 0
       /\ \E n \in 1..sl[k].size : At(sl[k], n - 1) >= 128 /\ At(sl[res.y], n - 1) < 128

\* C2: A.compare(B) = 0, A == B, and "same length and same bytes at every
\* position" are equivalent; A != B is the negation of A == B.
C2_EqualityAgrees ==
  /\ \A i, j \in CmpSlots :
       LET same == /\ sl[i].size = sl[j].size
                   /\ \A n \in 0..(sl[i].size - 1) : At(sl[i], n) = At(sl[j], n)
       IN  /\ (Slice_compare(sl[i], sl[j]) = 0) <=> operator_eq(sl[i], sl[j])
           /\ operator_eq(sl[i], sl[j]) <=> same
           /\ operator_ne(sl[i], sl[j]) <=> ~operator_eq(sl[i], sl[j])
  /\ res.op = "==" =>
       (res.bool <=> ToString(sl[res.x]) = ToString(sl[res.y]))
  /\ res.op = "!=" =>
       (res.bool <=> ToString(sl[res.x]) # ToString(sl[res.y]))

\* == has returned true for two different objects over equal non-empty
\* bytes, while a third span, a strict prefix of them, differs.
C2_Witness ==
  /\ res.op = "=="
  /\ res.x # res.y
  /\ res.bool
  /\ sl[res.x].size > 1
  /\ \E k \in CmpSlots :
       /\ StrictPrefix(ToString(sl[k]), ToString(sl[res.x]))
       /\ sl[k].size > 0
       /\ operator_ne(sl[k], sl[res.x])

----------------------------------------------------------------------------
(* One span s (slot 1) over a buffer, and a copy t of it (slot 2) that     *)
(* aliases the same storage.  s is indexed, shortened, cleared, compared.  *)

SubRanges(b) ==
  {Slice_ptr_len(b, k, n) : k \in 0..Len(mem[b]), n \in 0..Len(mem[b])}

RECURSIVE Sum(_)
Sum(ns) == IF ns = <<>> THEN 0 ELSE Head(ns) + Sum(Tail(ns))

InitSpan ==
  /\ mem \in {m \in [0..1 -> SeqsUpTo(Bytes, MaxLen)] : m[Static] = <<>>}
  /\ \E s \in {r \in SubRanges(1) : Valid(r)} :
       /\ sl = <<s, s>>              \* Slice(const Slice&) = default
       /\ hist = [base |-> s, alias |-> s, ns |-> <<>>, mem |-> mem]
  /\ pc = "run"
  /\ build \in [ndebug : BOOLEAN, cxx20 : {FALSE}]
  /\ res = NoRes

\* s[n]: assert(n < size()); return data_[n].  With NDEBUG the assert is
\* gone: the read is made, and past the storage it yields any byte.
Index(n) ==
  /\ pc = "run"
  /\ IF ULess(n, sl[1].size)
     THEN /\ res' = [op |-> "index", n |-> n, pre |-> TRUE, byte |-> At(sl[1], n)]
          /\ pc' = pc
     ELSE IF ~build.ndebug
     THEN /\ res' = [op |-> "index", n |-> n, pre |-> FALSE]
          /\ pc' = "abort"
     ELSE /\ \E b \in (IF sl[1].off + n < Len(mem[sl[1].buf])
                        THEN {At(sl[1], n)} ELSE Bytes \cup {0}) :
               res' = [op |-> "index", n |-> n, pre |-> FALSE, byte |-> b]
          /\ pc' = "ub"
  /\ UNCHANGED <<mem, sl, build, hist>>

\* s.remove_prefix(n): assert(n <= size()); data_ += n; size_ -= n.
RemovePrefix(n) ==
  /\ pc = "run"
  /\ Len(hist.ns) < MaxCalls
  /\ IF ULessEq(n, sl[1].size)
     THEN /\ sl' = [sl EXCEPT ![1] = remove_prefix(@, n)]
          /\ hist' = [hist EXCEPT !.ns = Append(@, n)]
          /\ res' = [op |-> "remove_prefix", n |-> n, pre |-> TRUE]
          /\ pc' = pc
     ELSE IF ~build.ndebug
     THEN /\ res' = [op |-> "remove_prefix", n |-> n, pre |-> FALSE]
          /\ pc' = "abort"
          /\ UNCHANGED <<sl, hist>>
     ELSE /\ sl' = [sl EXCEPT ![1] = remove_prefix(@, n)]
          /\ hist' = [hist EXCEPT !.ns = Append(@, n)]
          /\ res' = [op |-> "remove_prefix", n |-> n, pre |-> FALSE]
          /\ pc' = "ub"
  /\ UNCHANGED <<mem, build>>

\* s.clear(): from here on s is a span over the literal "".
Clear ==
  /\ pc = "run"
  /\ sl[1] # Slice_default
  /\ sl' = [sl EXCEPT ![1] = clear(@)]
  /\ hist' = [hist EXCEPT !.base = Slice_default, !.ns = <<>>]
  /\ res' = [op |-> "clear"]
  /\ UNCHANGED <<mem, pc, build>>

\* s.compare(Slice(d + k, L - k)), d and L the pointer and length s began
\* with and k the number of bytes removed from it since
CompareWithTail ==
  /\ pc = "run"
  /\ Sum(hist.ns) <= hist.base.size
  /\ res' = [op |-> "compare_tail",
             int |-> Slice_compare(sl[1],
                       Slice_ptr_len(hist.base.buf, hist.base.off + Sum(hist.ns),
                                     hist.base.size - Sum(hist.ns)))]
  /\ UNCHANGED <<mem, sl, pc, build, hist>>

\* t.starts_with(s)
StartsWith ==
  /\ pc = "run"
  /\ res' = [op |-> "starts_with", bool |-> starts_with(sl[2], sl[1])]
  /\ UNCHANGED <<mem, sl, pc, build, hist>>

NextSpan ==
  \/ \E n \in 0..(MaxLen + 1) : Index(n)
  \/ \E n \in 0..(MaxLen + 1) : RemovePrefix(n)
  \/ Clear
  \/ CompareWithTail
  \/ StartsWith

SpecSpan == InitSpan /\ [][NextSpan]_vars

\* C6: after remove_prefix(n_1), ..., remove_prefix(n_k), each n_i at most
\* the size at its call, the span has size L - (n_1+...+n_k) and its bytes
\* are b[n_1+...+n_k .. L-1] (as after one remove_prefix of the sum, and
\* comparing equal to that tail); the backing bytes and the span aliasing
\* them are as they were.
C6_RemovePrefixSequence ==
  pc = "run" =>
    LET L == hist.base.size
        k == Sum(hist.ns)
        b == [i \in 1..L |-> hist.mem[hist.base.buf][hist.base.off + i]]
    IN  /\ k <= L
        /\ sl[1].size = L - k
        /\ ToString(sl[1]) = SubSeq(b, k + 1, L)
        /\ sl[1] = remove_prefix(hist.base, k)
        /\ res.op = "compare_tail" => res.int = 0
        /\ mem = hist.mem
        /\ sl[2] = hist.alias

\* Two calls, each removing at least one byte, have left a non-empty span
\* of a buffer with two different bytes in it.
C6_Witness ==
  /\ pc = "run"
  /\ res.op = "remove_prefix"
  /\ Len(hist.ns) >= 2
  /\ \A i \in 1..Len(hist.ns) : hist.ns[i] >= 1
  /\ sl[1].size >= 1
  /\ sl[2].size = Sum(hist.ns) + sl[1].size
  /\ \E i \in 1..sl[2].size : At(sl[2], i - 1) # At(sl[1], 0)

\* C7 as claimed: an index at n >= size() returns no byte and a
\* remove_prefix(n) with n > size() yields no span (none whose length has
\* wrapped, none whose pointer is past the storage); both end in the fatal
\* assertion.  No other operation fails.
C7_FailFast ==
  /\ (res.op \in {"index", "remove_prefix"} /\ ~res.pre) =>
        /\ pc = "abort"
        /\ "byte" \notin DOMAIN res
  /\ \A i \in 1..2 : Valid(sl[i])
  /\ pc # "run" => (res.op \in {"index", "remove_prefix"} /\ ~res.pre)

----------------------------------------------------------------------------
(* class Slice_v : public Slice, the edge key *)

\* The object in slot i keeps its member string s_ in buffer i.  An object
\* is a record of the inherited data_ (buf, off) and size_, and of src_
\* and dst_; state tells whether the slot holds an object.

\* the decimal digits of n >= 0, as characters
RECURSIVE Digits(_)
Digits(n) == IF n < 10 THEN <<48 + n>> ELSE Append(Digits(n \div 10), 48 + (n % 10))

\* std::to_string(int): a '-' and the digits of -n for a negative n (the
\* magnitude is computed from -(n+1), which fits an int for every n)
to_string(n) ==
  IF n >= 0 THEN Digits(n)
  ELSE LET m == -(n + 1)
       IN  <<45>> \o (IF m % 10 < 9
                      THEN (IF m \div 10 = 0 THEN <<>> ELSE Digits(m \div 10))
                             \o <<48 + (m % 10) + 1>>
                      ELSE Append(Digits((m \div 10) + 1), 48))

\* s_(std::to_string(src) + '|' + std::to_string(dst))
Encoding(src, dst) == to_string(src) \o <<124>> \o to_string(dst)

\* a slot that holds no object
NoObject == [state |-> "dead", buf |-> Static, off |-> 0, size |-> 0, src |-> 0, dst |-> 0]

\* Slice_v() : dst_(0), src_(0), over the base's Slice()
Slice_v_default ==
  [state |-> "live", buf |-> Static, off |-> 0, size |-> 0, src |-> 0, dst |-> 0]

\* Slice_v(int src, int dst), built in slot i: data_ = s_.data(); size_ = s_.size()
Slice_v_values(i, src, dst) ==
  [state |-> "live", buf |-> i, off |-> 0, size |-> Len(Encoding(src, dst)),
   src |-> src, dst |-> dst]

\* A compare that falls back on the inherited comparison of the encodings
Slice_v_compare_bytes(x, y) == Slice_compare(x, y)

\* int Slice_v::compare(const Slice_v& b) const
Slice_v_compare(x, y) ==
  IF x.src < y.src THEN -1
  ELSE IF x.src > y.src THEN 1
  ELSE IF x.dst < y.dst THEN -1
  ELSE IF x.dst > y.dst THEN 1
  ELSE 0

\* The wildcard equality with the test of y's destination left out
Slice_v_eq_left_wildcard(x, y) ==
  x.src = y.src /\ (x.dst = y.dst \/ x.dst = Wildcard)

\* bool operator==(Slice_v x, Slice_v& y)
Slice_v_eq(x, y) ==
  x.src = y.src /\ (x.dst = y.dst \/ x.dst = Wildcard \/ y.dst = Wildcard)

\* How an operand of an expression is supplied: a named non-const object,
\* a const object (or a reference to const), or a temporary.
OperandKinds == {"lvalue", "const", "rvalue"}

\* The operator== that a == b calls for two Slice_v operands.  The second
\* parameter of operator==(Slice_v, Slice_v&) binds only to a non-const
\* lvalue; C++20 also tries it with the operands exchanged; when it is not
\* viable the operands convert to const Slice& and the call is
\* operator==(const Slice&, const Slice&).
EqOverload(lk, rk) ==
  IF rk = "lvalue" THEN "Slice_v"
  ELSE IF build.cxx20 /\ lk = "lvalue" THEN "Slice_v_reversed"
  ELSE "Slice"

\* a == b for Slice_v operands a (supplied as lk) and b (supplied as rk)
EdgeKeyEq(a, lk, b, rk) ==
  CASE EqOverload(lk, rk) = "Slice_v" -> Slice_v_eq(a, b)
    [] EqOverload(lk, rk) = "Slice_v_reversed" -> Slice_v_eq(b, a)
    [] OTHER -> operator_eq(a, b)

\* bool operator!=(const Slice_v& x, const Slice_v& y) { return !(x == y); }
\* inside it x and y are references to const
Slice_v_ne(x, y) == ~EdgeKeyEq(x, "const", y, "const")

----------------------------------------------------------------------------
(* Three edge keys built from values; the first two are compared with      *)
(* compare, == and !=, the operands of == supplied in every way.           *)

Ints == {INT_MIN, Wildcard, 0, 9, 10, INT_MAX}

KeySlots == 1..3

InitKey ==
  /\ \E p \in [KeySlots -> Ints \X Ints] :
       /\ mem = [b \in 0..3 |-> IF b = Static THEN <<>> ELSE Encoding(p[b][1], p[b][2])]
       /\ sl = [i \in KeySlots |-> Slice_v_values(i, p[i][1], p[i][2])]
  /\ pc = "run"
  /\ build \in [ndebug : {FALSE}, cxx20 : BOOLEAN]
  /\ res = NoRes
  /\ hist = <<>>

\* x.compare(y)
KeyCompare ==
  /\ res' = [op |-> "compare", int |-> Slice_v_compare(sl[1], sl[2])]
  /\ UNCHANGED <<mem, sl, pc, build, hist>>

\* x == y
KeyEqual(lk, rk) ==
  /\ res' = [op |-> "==", lk |-> lk, rk |-> rk, overload |-> EqOverload(lk, rk),
             bool |-> EdgeKeyEq(sl[1], lk, sl[2], rk)]
  /\ UNCHANGED <<mem, sl, pc, build, hist>>

\* x != y: every operand binds to the const Slice_v& parameters
KeyNotEqual ==
  /\ res' = [op |-> "!=", bool |-> Slice_v_ne(sl[1], sl[2])]
  /\ UNCHANGED <<mem, sl, pc, build, hist>>

NextKey ==
  \/ KeyCompare
  \/ \E lk, rk \in OperandKinds : KeyEqual(lk, rk)
  \/ KeyNotEqual

SpecKey == InitKey /\ [][NextKey]_vars

\* The numeric order of (source, destination) pairs.
PairLess(a, b) == a.src < b.src \/ (a.src = b.src /\ a.dst < b.dst)

PairSign(a, b) == IF PairLess(a, b) THEN -1 ELSE IF PairLess(b, a) THEN 1 ELSE 0

\* The wildcard rule of the edge keys' equality.
WildcardRule(a, b) ==
  a.src = b.src /\ (a.dst = b.dst \/ a.dst = -1 \/ b.dst = -1)

\* C3: x.compare(y) is the numeric comparison of (source, destination),
\* source first, over the whole int range, -1 included; it is a total order
\* on the pairs; it is not the byte order of the encodings: (9,0) compares
\* below (10,0) although "9|0" sorts after "10|0".
C3_NumericOrder ==
  /\ res.op = "compare" => Sign(res.int) = PairSign(sl[1], sl[2])
  /\ \A i, j \in KeySlots :
       LET c == Slice_v_compare(sl[i], sl[j])
       IN  /\ (c < 0) <=> PairLess(sl[i], sl[j])
           /\ (c > 0) <=> PairLess(sl[j], sl[i])
           /\ (c = 0) <=> (sl[i].src = sl[j].src /\ sl[i].dst = sl[j].dst)
           /\ Sign(c) = -Sign(Slice_v_compare(sl[j], sl[i]))
           /\ (sl[i].src = 9 /\ sl[j].src = 10 /\ sl[i].dst = 0 /\ sl[j].dst = 0) =>
                 (c < 0 /\ Slice_compare(sl[i], sl[j]) > 0)
  /\ \A i, j, k \in KeySlots :
       Slice_v_compare(sl[i], sl[j]) < 0 /\ Slice_v_compare(sl[j], sl[k]) < 0
         => Slice_v_compare(sl[i], sl[k]) < 0

\* (9,0).compare((10,0)) has returned a negative value, the encodings being
\* "9|0" and "10|0", and the third key, the least int with -1, is below both.
C3_Witness ==
  /\ res.op = "compare" /\ res.int < 0
  /\ sl[1].src = 9 /\ sl[1].dst = 0 /\ sl[2].src = 10 /\ sl[2].dst = 0
  /\ ToString(sl[1]) = <<57, 124, 48>>
  /\ ToString(sl[2]) = <<49, 48, 124, 48>>
  /\ sl[3].src = INT_MIN /\ sl[3].dst = Wildcard
  /\ Slice_v_compare(sl[3], sl[1]) < 0

\* C4 as claimed: however the operands are supplied, x == y is true iff the
\* sources are equal and the destinations are equal or one of them is -1.
C4_WildcardEqualityHoweverSupplied ==
  res.op = "==" => (res.bool <=> WildcardRule(sl[1], sl[2]))

\* C5 as claimed: x != y is the negation of the wildcard equality.
C5_NotEqualNegatesWildcard ==
  res.op = "!=" => (res.bool <=> ~WildcardRule(sl[1], sl[2]))

----------------------------------------------------------------------------
(* Edge keys as objects: built, copied, assigned, passed by value to       *)
(* operator==, destroyed; and shortened or cleared through the members     *)
(* they inherit from Slice.                                                *)

Objs == 1..NObj

LifeInts == {Wildcard, 10}

NoHist == [built |-> "none", src |-> 0, dst |-> 0]

Live(i) == sl[i].state = "live"

InitLife ==
  /\ mem = [b \in 0..NObj |-> <<>>]
  /\ sl = [i \in Objs |-> NoObject]
  /\ hist = [i \in Objs |-> NoHist]
  /\ pc = "run"
  /\ build \in [ndebug : BOOLEAN, cxx20 : {FALSE}]
  /\ res = NoRes

\* Slice_v k(src, dst), in the free slot i
Construct(i, src, dst) ==
  /\ pc = "run"
  /\ ~Live(i)
  /\ mem' = [mem EXCEPT ![i] = Encoding(src, dst)]
  /\ sl' = [sl EXCEPT ![i] = Slice_v_values(i, src, dst)]
  /\ hist' = [hist EXCEPT ![i] = [built |-> "values", src |-> src, dst |-> dst]]
  /\ res' = [op |-> "construct"]
  /\ UNCHANGED <<pc, build>>

\* Slice_v k, in the free slot i
DefaultConstruct(i) ==
  /\ pc = "run"
  /\ ~Live(i)
  /\ mem' = [mem EXCEPT ![i] = <<>>]
  /\ sl' = [sl EXCEPT ![i] = Slice_v_default]
  /\ hist' = [hist EXCEPT ![i] = [built |-> "default", src |-> 0, dst |-> 0]]
  /\ res' = [op |-> "construct"]
  /\ UNCHANGED <<pc, build>>

\* Slice_v k(other): the implicit copy constructor copies the base (data_
\* and size_ as they are), src_, dst_, and the string s_ into a buffer of
\* the new object.
CopyConstruct(i, j) ==
  /\ pc = "run"
  /\ ~Live(i) /\ Live(j)
  /\ mem' = [mem EXCEPT ![i] = mem[j]]
  /\ sl' = [sl EXCEPT ![i] = sl[j]]
  /\ hist' = [hist EXCEPT ![i] = hist[j]]
  /\ res' = [op |-> "copy"]
  /\ UNCHANGED <<pc, build>>

\* k = other: the implicit copy assignment, member by member
Assign(i, j) ==
  /\ pc = "run"
  /\ Live(i) /\ Live(j) /\ i # j
  /\ mem' = [mem EXCEPT ![i] = mem[j]]
  /\ sl' = [sl EXCEPT ![i] = sl[j]]
  /\ res' = [op |-> "assign"]
  /\ UNCHANGED <<pc, build, hist>>

\* the end of k's lifetime: its string releases its buffer
Destroy(i) ==
  /\ pc = "run"
  /\ Live(i)
  /\ mem' = [mem EXCEPT ![i] = <<>>]
  /\ sl' = [sl EXCEPT ![i] = NoObject]
  /\ hist' = [hist EXCEPT ![i] = NoHist]
  /\ res' = [op |-> "destroy"]
  /\ UNCHANGED <<pc, build>>

\* a == b for named objects a (slot i) and b (slot j): operator==(Slice_v x,
\* Slice_v& y) is entered, its parameter x copy-constructed from a in slot p
EqEnter(i, j, p) ==
  /\ pc = "run"
  /\ Live(i) /\ Live(j) /\ ~Live(p)
  /\ mem' = [mem EXCEPT ![p] = mem[i]]
  /\ sl' = [sl EXCEPT ![p] = sl[i]]
  /\ hist' = [hist EXCEPT ![p] = hist[i]]
  /\ res' = [op |-> "==", x |-> p, y |-> j]
  /\ pc' = "in_eq"
  /\ UNCHANGED build

\* operator== returns, and its parameter x is destroyed
EqReturn ==
  /\ pc = "in_eq"
  /\ mem' = [mem EXCEPT ![res.x] = <<>>]
  /\ sl' = [sl EXCEPT ![res.x] = NoObject]
  /\ hist' = [hist EXCEPT ![res.x] = NoHist]
  /\ res' = [op |-> "==", bool |-> Slice_v_eq(sl[res.x], sl[res.y])]
  /\ pc' = "run"
  /\ UNCHANGED build

NextLife ==
  \/ \E i \in Objs, s, d \in LifeInts : Construct(i, s, d)
  \/ \E i \in Objs : DefaultConstruct(i)
  \/ \E i, j \in Objs : CopyConstruct(i, j)
  \/ \E i, j \in Objs : Assign(i, j)
  \/ \E i \in Objs : Destroy(i)
  \/ \E i, j, p \in Objs : EqEnter(i, j, p)
  \/ EqReturn

SpecLife == InitLife /\ [][NextLife]_vars

\* The view of the key in slot i points into the buffer of an object that
\* is no more.
Dangling(i) == sl[i].buf # Static /\ ~Live(sl[i].buf)

\* C8 as claimed: every edge key built with values has its view on its own
\* buffer, never on the buffer of another instance, so that its view does
\* not dangle when another key is destroyed.
C8_ViewOnOwnBuffer ==
  \A i \in Objs :
    (Live(i) /\ hist[i].built = "values") => (sl[i].buf = i /\ ~Dangling(i))

\* k.clear(), inherited from Slice and public
KeyClear(i) ==
  /\ pc = "run"
  /\ Live(i)
  /\ sl' = [sl EXCEPT ![i] = clear(@)]
  /\ res' = [op |-> "clear"]
  /\ UNCHANGED <<mem, pc, build, hist>>

\* k.remove_prefix(n), inherited from Slice and public
KeyRemovePrefix(i, n) ==
  /\ pc = "run"
  /\ Live(i)
  /\ IF ULessEq(n, sl[i].size)
     THEN /\ sl' = [sl EXCEPT ![i] = remove_prefix(@, n)]
          /\ res' = [op |-> "remove_prefix", n |-> n, pre |-> TRUE]
          /\ pc' = pc
     ELSE IF ~build.ndebug
     THEN /\ res' = [op |-> "remove_prefix", n |-> n, pre |-> FALSE]
          /\ pc' = "abort"
          /\ sl' = sl
     ELSE /\ sl' = [sl EXCEPT ![i] = remove_prefix(@, n)]
          /\ res' = [op |-> "remove_prefix", n |-> n, pre |-> FALSE]
          /\ pc' = "ub"
  /\ UNCHANGED <<mem, build, hist>>

\* remove_prefix lengths tried on keys: one byte, and more than the five
\* bytes of the longest encoding of LifeInts, "10|-1"
RemoveLens == {1, 6}

NextOps ==
  \/ NextLife
  \/ \E i \in Objs : KeyClear(i)
  \/ \E i \in Objs, n \in RemoveLens : KeyRemovePrefix(i, n)

SpecOps == InitLife /\ [][NextOps]_vars

\* C9 as claimed: whatever is called on an edge key built from (source,
\* destination), src() and dst() return those values and the span it
\* exposes is the whole encoding "<source>|<destination>".
C9_FieldsNeverChange ==
  \A i \in Objs :
    (Live(i) /\ hist[i].built = "values") =>
      /\ sl[i].src = hist[i].src
      /\ sl[i].dst = hist[i].dst
      /\ ~Dangling(i)
      /\ Valid(sl[i])
      /\ ToString(sl[i]) = Encoding(hist[i].src, hist[i].dst)

====
